---- MODULE Spec2Model ----
(***************************************************************************)
(* Cross-document product-identity resolution of the smart-home tool set:  *)
(* the spreadsheet-side pipeline (formula parser, relationship chain       *)
(* resolver, validator, image-save workflow) and the deck-side pipeline    *)
(* (label extractor, device query, device statistics).                     *)
(*                                                                         *)
(* Strings are sequences of tokens (a token is a character or an           *)
(* indivisible run of characters), so that prefixing, substring tests,     *)
(* basename and splitext are computed and not assumed.                     *)
(***************************************************************************)
EXTENDS Integers, Sequences, FiniteSets, TLC

\* Number of data rows of the catalog worksheet (sheet rows 2..MaxRows+1).
MaxRows == 2

\* ------------------------------------------------------------------------
\* Token strings
\* ------------------------------------------------------------------------

\* Python's `needle in haystack` on strings.
IsSubstr(needle, hay) ==
  \E i \in 0..(Len(hay) - Len(needle)) :
    \A j \in 1..Len(needle) : hay[i + j] = needle[j]

RECURSIVE LastSlash(_, _)
LastSlash(path, i) ==
  IF i = 0 THEN 0
  ELSE IF path[i] = "/" THEN i ELSE LastSlash(path, i - 1)

\* os.path.basename
Basename(path) == SubSeq(path, LastSlash(path, Len(path)) + 1, Len(path))

\* os.path.dirname followed by the separator
Dirname(path) == SubSeq(path, 1, LastSlash(path, Len(path)))

Extensions == {".png", ".jpeg"}

\* os.path.splitext(name)[0]: the extension is the last token when it is one.
Stem(name) ==
  IF Len(name) > 1 /\ name[Len(name)] \in Extensions
  THEN SubSeq(name, 1, Len(name) - 1)
  ELSE name

\* ------------------------------------------------------------------------
\* Python dicts, which keep insertion order: sequences of <<key, value>>
\* ------------------------------------------------------------------------

DictKeys(d) == {d[i][1] : i \in 1..Len(d)}

DictIndex(d, k) == CHOOSE i \in 1..Len(d) : d[i][1] = k

DictGet(d, k) == d[DictIndex(d, k)][2]

\* d[k] = v: a key already present keeps its position.
DictPut(d, k, v) ==
  IF k \in DictKeys(d)
  THEN [d EXCEPT ![DictIndex(d, k)] = <<k, v>>]
  ELSE Append(d, <<k, v>>)

\* ------------------------------------------------------------------------
\* The catalog workbook and its container
\* ------------------------------------------------------------------------

IdPrefix == <<"ID_">>

\* Image identifiers that occur in formulas and in the image registry.
ImageIds == {<<"A">>, <<"ID_", "A">>}

\* An image-column cell: whether its text contains DISPIMG, the namespace
\* prefix before it, whitespace around the arguments, whether the first
\* argument is a double-quoted string, that string, and the trailing
\* display-mode argument ("" when there is none).
NoCell == [marker |-> FALSE, ns |-> "", ws |-> FALSE, quoted |-> FALSE,
           id |-> <<>>, mode |-> ""]

Formula(ns, ws, id) == [marker |-> TRUE, ns |-> ns, ws |-> ws, quoted |-> TRUE,
                        id |-> id, mode |-> "1"]

\* e.g. =DISPIMG(ID_A): the marker is there but no pattern applies.
BadCell == [marker |-> TRUE, ns |-> "=", ws |-> FALSE, quoted |-> FALSE,
            id |-> <<"ID_", "A">>, mode |-> ""]

Cells == {NoCell, BadCell, Formula("=", TRUE, <<"A">>),
          Formula("=_xlfn.", FALSE, <<"ID_", "A">>)}

\* Values of the product-identifier cell (column 1); 0 stands for an empty cell.
PdidCells == {0, 1, 2}

\* Device short names (column 4), as token strings; "<kai>" and "<guan>"
\* stand for the two CJK characters of the word switch.
ShortNames == {<<"<kai>", "<guan>">>}

CatalogRows == [pdid : PdidCells, short : ShortNames, cell : Cells]

RelIds == {"rId1", "rId2"}

\* The registry part pairs an identifier with a drawing-relationship id.
RidOf(id) == IF id = <<"A">> THEN "rId1" ELSE "rId2"

\* The relationship part declares a target for a relationship id.
TargetOf(rid) == IF rid = "rId1" THEN <<"media", "/", "image", "1", ".png">>
                 ELSE <<"media", "/", "image", "2", ".jpeg">>

\* Content of a media file: "bad" is a file that is no valid image.
ContentOf(rid, state) ==
  IF state = "corrupt" THEN "bad"
  ELSE IF rid = "rId1" THEN "c1" ELSE "c2"

\* Per relationship id: no declaration, declared but file missing, file there.
ChainStates == {"norel", "missing", "ok", "corrupt"}

TempExcelDir == <<"temp_excel_extract", "/">>
TempMediaDir == TempExcelDir \o <<"xl", "/", "media", "/">>
TempProcDir == <<"temp_image_processing", "/">>
ExtractDir == TempProcDir \o <<"extracted", "/">>

VARIABLES
  catalog,     \* data rows of the worksheet, catalog[i] is sheet row i + 1
  registry,    \* cellimages.xml: image identifier -> relationship id
  rels,        \* cellimages.xml.rels: relationship id -> target
  media,       \* xl/media of the container: file name -> content
  readable,    \* the workbook is a valid zip container
  imageHeader, \* a header cell of row 1 contains the image word
  registryPart, \* xl/cellimages.xml is in the container
  pc,          \* position of the spreadsheet-side run
  tmpExcel,    \* temp_excel_extract exists
  tmpProc,     \* temp_image_processing exists
  procFiles,   \* temp_image_processing/extracted: file name -> content
  enhanced,    \* controller.enhanced_mapping_data
  extracted,   \* processing_results['extracted_images']
  renamed,     \* processing_results['renamed_images']
  saved,       \* processing_results['saved_images']
  status,      \* controller.processing_status
  errors,      \* processing_results['errors']
  outDir,      \* output directory: file name -> content
  mappingFile, \* image_mapping.json of the output directory
  result,      \* what the run returned
  apiResult,   \* result of parse_enhanced_excel_image_mapping
  clock,       \* time, as read by datetime.now()
  mappingMeta, \* metadata of image_mapping.json
  history,     \* runs so far, and the mapping file the previous run left
  mapperPos,   \* mappers at work side by side: mapper -> position and reading
  extractOwner, \* the mapper whose files temp_excel_extract holds, 0 if none
  deck,        \* slides of the presentation
  products,    \* product identifiers of the catalog read by the deck side
  reportFile,  \* pdid_extraction_report.json in the working directory
  dpc,         \* position of the deck-side run
  labels,      \* labels returned by extract_pdid_labels
  pdidCounts,  \* result of load_pdid_data
  deviceMapping, \* result of query_devices_by_pdid_list
  statistics,  \* result of count_devices_by_pdid
  analysis     \* analysis_results of run_analysis

inputVars == <<catalog, registry, rels, media, readable, imageHeader,
              registryPart>>

runVars == <<clock, mappingMeta, history>>

mapperVars == <<mapperPos, extractOwner>>

sheetVars == <<inputVars, pc, tmpExcel, tmpProc, procFiles, enhanced, extracted,
               renamed, saved, status, errors, outDir, mappingFile, result,
               apiResult, runVars, mapperVars>>

deckVars == <<deck, products, reportFile, dpc, labels, pdidCounts,
              deviceMapping, statistics, analysis>>

vars == <<sheetVars, deckVars>>

\* ------------------------------------------------------------------------
\* Formula parser (EnhancedExcelImageMapper.extract_dispimg_formulas)
\* ------------------------------------------------------------------------

\* re.search(r'(?:=_?_?xlfn\.)?DISPIMG\s*\(\s*"([^"]+)"\s*,\s*\d+\s*\)'):
\* the namespace prefix is optional and whitespace is tolerated; what is
\* required is a quoted non-empty identifier and a numeric mode argument.
PrimaryMatch(cell) ==
  cell.quoted /\ cell.id # <<>> /\ cell.mode \in {"0", "1", "2"}

\* str(pdid).strip() if pdid else ""
PdidText(v) == IF v = 0 THEN "" ELSE ToString(v)

\* A parser that reads the image cells whether or not row 1 names the column.
ExtractWithoutHeader(header, cat) ==
  LET rows == {r \in 2..(Len(cat) + 1) :
                 cat[r - 1].cell.marker /\ PrimaryMatch(cat[r - 1].cell)}
  IN [r \in rows |->
        [pdid |-> PdidText(cat[r - 1].pdid),
         device_name |-> cat[r - 1].short,
         dispimg_formula |-> cat[r - 1].cell,
         image_id |-> cat[r - 1].cell.id,
         row_number |-> r]]

\* Without a header that contains the image word the result is empty.
extract_dispimg_formulas(header, cat) ==
  LET rows == IF ~header THEN {}
              ELSE {r \in 2..(Len(cat) + 1) :
                      cat[r - 1].cell.marker /\ PrimaryMatch(cat[r - 1].cell)}
  IN [r \in rows |->
        [pdid |-> PdidText(cat[r - 1].pdid),
         device_name |-> cat[r - 1].short,
         dispimg_formula |-> cat[r - 1].cell,
         image_id |-> cat[r - 1].cell.id,
         row_number |-> r]]

\* ------------------------------------------------------------------------
\* Registry walk (EnhancedExcelImageMapper.parse_cellimages_mapping)
\* ------------------------------------------------------------------------

\* Without xl/cellimages.xml the result is empty.
parse_cellimages_mapping(part, reg, rel, med) ==
  LET ids == IF ~part THEN {}
             ELSE {id \in DOMAIN reg :
                     /\ reg[id] \in DOMAIN rel
                     /\ Basename(rel[reg[id]]) \in DOMAIN med}
  IN [id \in ids |->
        [image_id |-> id,
         embed_id |-> reg[id],
         actual_file |-> Basename(rel[reg[id]]),
         file_path |-> TempMediaDir \o Basename(rel[reg[id]]),
         r_id |-> reg[id]]]

\* ------------------------------------------------------------------------
\* Relationship chain resolver
\* (EnhancedExcelImageMapper.build_complete_mapping_chain)
\* ------------------------------------------------------------------------

MappingKey(pdid, row) ==
  IF pdid # "" THEN <<"pdid_", pdid>> ELSE <<"row_", ToString(row)>>

\* A resolver that tries the identifier with ID_ put before it first.
MatchPrefixedFirst(image_id, cm) ==
  IF (IdPrefix \o image_id) \in DOMAIN cm THEN IdPrefix \o image_id
  ELSE IF image_id \in DOMAIN cm THEN image_id
  ELSE <<>>

\* The registry entry a formula identifier is matched to, <<>> when none:
\* the identifier as written, else the identifier with ID_ put before it.
MatchCellimages(image_id, cm) ==
  IF image_id \in DOMAIN cm THEN image_id
  ELSE IF (IdPrefix \o image_id) \in DOMAIN cm THEN IdPrefix \o image_id
  ELSE <<>>

ChainEntry(info, ci, matched) ==
  [pdid |-> info.pdid,
   device_name |-> info.device_name,
   row_number |-> info.row_number,
   dispimg_formula |-> info.dispimg_formula,
   image_id |-> matched,
   r_id |-> ci.r_id,
   actual_file |-> ci.actual_file,
   file_path |-> ci.file_path,
   validation_status |->
     IF info.pdid # "" /\ ci.actual_file # <<>> THEN "complete" ELSE "incomplete"]

\* One iteration of the loop over dispimg_mappings.items().
ChainStep(acc, info, cm) ==
  LET matched == MatchCellimages(info.image_id, cm)
  IN IF matched = <<>> THEN acc
     ELSE DictPut(acc, MappingKey(info.pdid, info.row_number),
                  ChainEntry(info, cm[matched], matched))

RECURSIVE ChainLoop(_, _, _, _)
ChainLoop(r, dm, cm, acc) ==
  IF r > MaxRows + 1 THEN acc
  ELSE ChainLoop(r + 1, dm, cm,
                 IF r \in DOMAIN dm THEN ChainStep(acc, dm[r], cm) ELSE acc)

build_complete_mapping_chain(dm, cm) == ChainLoop(2, dm, cm, <<>>)

\* ------------------------------------------------------------------------
\* Completeness validator (EnhancedExcelImageMapper.validate_mapping_chain)
\* ------------------------------------------------------------------------

\* A validator that leaves an entry without image file as the resolver
\* marked it.
ClassifyLeavesIncomplete(info) ==
  IF info.pdid = "" THEN "missing_pdid"
  ELSE IF info.actual_file = <<>> THEN "incomplete"
  ELSE "complete"

Classify(info) ==
  IF info.pdid = "" THEN "missing_pdid"
  ELSE IF info.actual_file = <<>> THEN "missing_image"
  ELSE "complete"

\* The statuses the validator writes into the entries it is given.
ValidatedEntries(md) ==
  [i \in 1..Len(md) |->
     <<md[i][1], [md[i][2] EXCEPT !.validation_status = Classify(md[i][2])]>>]

CountStatus(md, s) == Cardinality({i \in 1..Len(md) : Classify(md[i][2]) = s})

\* The rate cut off after two decimals instead of rounded.
RoundRateTruncated(complete, total) == (complete * 10000) \div total

\* round(x, 2) of x = complete / total * 100, in hundredths of a percent.
RoundRate(complete, total) ==
  LET n == complete * 10000
      q == n \div total
      twice == 2 * (n % total)
  IN IF twice > total \/ (twice = total /\ q % 2 = 1) THEN q + 1 ELSE q

validate_mapping_chain(md) ==
  [total_mappings |-> Len(md),
   complete_mappings |-> CountStatus(md, "complete"),
   missing_pdid |-> CountStatus(md, "missing_pdid"),
   missing_images |-> CountStatus(md, "missing_image"),
   completeness_rate_x100 |->
     IF Len(md) > 0 THEN RoundRate(CountStatus(md, "complete"), Len(md)) ELSE 0]

\* EnhancedExcelImageMapper.parse_enhanced_mapping: the entries it returns.
parse_enhanced_mapping(header, cat, part, reg, rel, med) ==
  ValidatedEntries(
    build_complete_mapping_chain(extract_dispimg_formulas(header, cat),
                                 parse_cellimages_mapping(part, reg, rel, med)))

\* ------------------------------------------------------------------------
\* Transliteration of a device short name
\* (ImageSaveController._convert_device_name_to_pinyin)
\* ------------------------------------------------------------------------

CjkChars == {"<kai>", "<guan>", "<rare>"}
AsciiAlnum == {"k", "K", "7"}
\* A character outside ASCII and outside U+4E00..U+9FFF for which
\* str.isalnum() is true (a kana letter); it has no lower case of its own.
OtherAlnum == {"<kana>"}
Separators == {" ", "-", "_"}

\* pypinyin.pinyin(char, style=NORMAL)[0][0]; a character it does not know
\* comes back unchanged.
PinyinOf(c) ==
  IF c = "<kai>" THEN "kai" ELSE IF c = "<guan>" THEN "guan" ELSE c

Lower(c) == IF c = "K" THEN "k" ELSE c

RECURSIVE PinyinChars(_)
PinyinChars(name) ==
  IF name = <<>> THEN <<>>
  ELSE LET c == Head(name)
           out == IF c \in CjkChars THEN <<PinyinOf(c)>>
                  ELSE IF c \in AsciiAlnum \cup OtherAlnum THEN <<Lower(c)>>
                  ELSE IF c \in Separators THEN <<"_">>
                  ELSE <<>>
       IN out \o PinyinChars(Tail(name))

\* re.sub(r'[^a-zA-Z0-9]', '_', name).lower(), or with '_' kept as it is.
RECURSIVE AsciiOnly(_)
AsciiOnly(name) ==
  IF name = <<>> THEN <<>>
  ELSE <<IF Head(name) \in AsciiAlnum THEN Lower(Head(name)) ELSE "_">>
       \o AsciiOnly(Tail(name))

\* re.sub(r'_+', '_', s)
RECURSIVE CollapseUnderscores(_)
CollapseUnderscores(s) ==
  IF Len(s) < 2 THEN s
  ELSE IF s[1] = "_" /\ s[2] = "_" THEN CollapseUnderscores(Tail(s))
  ELSE <<s[1]>> \o CollapseUnderscores(Tail(s))

\* s.strip('_'), on a string whose underscore runs are collapsed
StripUnderscores(s) ==
  LET a == IF s # <<>> /\ Head(s) = "_" THEN Tail(s) ELSE s
  IN IF a # <<>> /\ a[Len(a)] = "_" THEN SubSeq(a, 1, Len(a) - 1) ELSE a

HasCjk(s) == \E i \in 1..Len(s) : s[i] \in CjkChars

convert_device_name_to_pinyin(name) ==
  IF name = <<>> THEN <<"device">>
  ELSE LET joined == PinyinChars(name)
           first == IF joined = <<>> THEN AsciiOnly(name) ELSE joined
           cleaned == StripUnderscores(CollapseUnderscores(first))
       IN IF HasCjk(cleaned)
          THEN StripUnderscores(CollapseUnderscores(AsciiOnly(name)))
          ELSE cleaned

\* ------------------------------------------------------------------------
\* Legacy extraction path (ExcelImageExtractor)
\* ------------------------------------------------------------------------

HexTokens == {"A", "B", "C", "D", "E", "F", "0", "1", "2", "3", "4", "5", "6",
              "7", "8", "9"}

\* re.search(r'DISPIMG\("ID_([A-F0-9]+)",1\)'): no whitespace, the identifier
\* starts with ID_ and goes on in upper-case hexadecimal, the mode is 1.
LegacyMatch(cell) ==
  /\ cell.quoted /\ ~cell.ws /\ cell.mode = "1"
  /\ Len(cell.id) >= 2 /\ cell.id[1] = "ID_"
  /\ \A i \in 2..Len(cell.id) : cell.id[i] \in HexTokens

\* ExcelImageExtractor.parse_dispimg_formulas: row -> identifier without
\* ID_; nothing without a header that contains the image word.
parse_dispimg_formulas(header, cat) ==
  LET rows == IF ~header THEN {}
              ELSE {r \in 2..(Len(cat) + 1) :
                      cat[r - 1].cell.marker /\ LegacyMatch(cat[r - 1].cell)}
  IN [r \in rows |-> Tail(cat[r - 1].cell.id)]

parse_wps_cellimages_mapping(reg, rel, med) ==
  LET ids == {id \in DOMAIN reg :
                /\ reg[id] \in DOMAIN rel
                /\ Basename(rel[reg[id]]) \in DOMAIN med}
  IN [id \in ids |->
        [image_id |-> id,
         embed_id |-> reg[id],
         actual_file |-> Basename(rel[reg[id]]),
         wps_format |-> TRUE]]

\* The order in which os.listdir lists the media directory.
MediaListing == <<Basename(TargetOf("rId1")), Basename(TargetOf("rId2"))>>

\* ExcelImageExtractor.extract_images_from_media: stem -> copied path
extract_images_from_media(med) ==
  LET Present(n) == n \in DOMAIN med /\ n[Len(n)] \in Extensions
      names == SelectSeq(MediaListing, Present)
  IN [i \in 1..Len(names) |-> <<Stem(names[i]), ExtractDir \o names[i]>>]

\* The <<source file, identifier>> pairs appended to file_to_ids, in row order.
RECURSIVE FileToIds(_, _, _, _)
FileToIds(r, images, dm, wps) ==
  IF r > MaxRows + 1 THEN <<>>
  ELSE LET wid == IF r \in DOMAIN dm THEN IdPrefix \o dm[r] ELSE <<>>
           hit == /\ wid # <<>>
                  /\ wid \in DOMAIN wps
                  /\ Stem(wps[wid].actual_file) \in DictKeys(images)
       IN (IF hit
           THEN <<<<DictGet(images, Stem(wps[wid].actual_file)), wid>>>>
           ELSE <<>>)
          \o FileToIds(r + 1, images, dm, wps)

\* Iteration order of file_to_ids: sources as first seen, then their ids.
GroupedIds(pairs) ==
  LET FirstOfSource(i) == \A j \in 1..(i - 1) : pairs[j][1] # pairs[i][1]
      RECURSIVE Walk(_)
      Walk(i) ==
        IF i > Len(pairs) THEN <<>>
        ELSE (IF FirstOfSource(i)
              THEN LET Same(q) == q[1] = pairs[i][1]
                   IN SelectSeq(pairs, Same)
              ELSE <<>>) \o Walk(i + 1)
  IN Walk(1)

\* ExcelImageExtractor.build_correct_image_mapping: one copy per identifier,
\* named after the identifier, next to the extracted images.
build_correct_image_mapping(images, dm, wps) ==
  LET pairs == GroupedIds(FileToIds(2, images, dm, wps))
      RECURSIVE Put(_, _)
      Put(i, acc) ==
        IF i > Len(pairs) THEN acc
        ELSE Put(i + 1,
                 DictPut(acc, pairs[i][2],
                         Dirname(pairs[i][1]) \o pairs[i][2]
                           \o <<pairs[i][1][Len(pairs[i][1])]>>))
  IN Put(1, <<>>)

\* ExcelImageExtractor.extract_all_images: the dict it returns.
extract_all_images(header, cat, reg, rel, med) ==
  LET images == extract_images_from_media(med)
      dm == parse_dispimg_formulas(header, cat)
  IN [extracted_images |-> images,
      dispimg_formulas |-> dm,
      correct_mapping |->
        build_correct_image_mapping(images, dm,
                                    parse_wps_cellimages_mapping(reg, rel, med))]

\* The files extract_all_images leaves in the directory it is given: the
\* media images and, per identifier of correct_mapping, a copy of its image.
LegacyFiles(info, wps, med) ==
  LET copies == 1..Len(info.correct_mapping)
      names == {Basename(info.extracted_images[i][2]) :
                  i \in 1..Len(info.extracted_images)}
              \cup {Basename(info.correct_mapping[i][2]) : i \in copies}
      CopyOf(n) == CHOOSE i \in copies : Basename(info.correct_mapping[i][2]) = n
  IN [n \in names |->
        IF n \in DOMAIN med THEN med[n]
        ELSE med[wps[info.correct_mapping[CopyOf(n)][1]].actual_file]]

\* ------------------------------------------------------------------------
\* Traditional renamer (ImageRenamer)
\* ------------------------------------------------------------------------

\* ImageRenamer.load_excel_data: row -> str(pdid) for rows with a pdid
PdidMapping(cat) ==
  [r \in {q \in 2..(Len(cat) + 1) : cat[q - 1].pdid # 0} |->
     ToString(cat[r - 1].pdid)]

DeviceNameMapping(cat) ==
  [r \in {q \in 2..(Len(cat) + 1) : cat[q - 1].short # <<>>} |-> cat[r - 1].short]

\* ImageRenamer.generate_image_filename: pdid{id}_{pinyin}.png
generate_image_filename(pdid, device_name) ==
  <<"pdid", pdid, "_">> \o convert_device_name_to_pinyin(device_name)
    \o <<".png">>

Digits == {"0", "1", "2", "3", "4", "5", "6", "7", "8", "9"}

DigitValue(t) == CHOOSE n \in 0..9 : ToString(n) = t

\* int(re.search(r'\d+', image_id).group()), 0 when there is no digit
FirstNumber(id) ==
  IF \E i \in 1..Len(id) : id[i] \in Digits
  THEN DigitValue(id[CHOOSE i \in 1..Len(id) :
                       id[i] \in Digits /\ \A j \in 1..(i - 1) : id[j] \notin Digits])
  ELSE 0

\* The loop of ImageRenamer.rename_images over image_mapping.items().
RECURSIVE RenamerLoop(_, _, _, _)
RenamerLoop(i, image_mapping, enh, cat) ==
  IF i > Len(image_mapping) THEN <<>>
  ELSE LET id == image_mapping[i][1]
           byMapping == {k \in 1..Len(enh) : enh[k][2].image_id = id}
           guess == FirstNumber(id)
           row == IF byMapping # {}
                  THEN enh[CHOOSE k \in byMapping : \A m \in byMapping : m <= k][2].row_number
                  ELSE IF guess >= 2 /\ guess <= Cardinality(DOMAIN PdidMapping(cat)) + 2
                  THEN guess ELSE 0
           ok == /\ row # 0
                 /\ row \in DOMAIN PdidMapping(cat)
                 /\ row \in DOMAIN DeviceNameMapping(cat)
       IN (IF ok
           THEN <<<<generate_image_filename(PdidMapping(cat)[row],
                                            DeviceNameMapping(cat)[row]),
                    image_mapping[i][2]>>>>
           ELSE <<>>) \o RenamerLoop(i + 1, image_mapping, enh, cat)

RECURSIVE DictFromPairs(_, _)
DictFromPairs(pairs, acc) ==
  IF pairs = <<>> THEN acc
  ELSE DictFromPairs(Tail(pairs), DictPut(acc, Head(pairs)[1], Head(pairs)[2]))

\* ImageRenamer.rename_images: what it returns, or that it raises. With an
\* empty enhanced mapping it calls the fallback with the undefined name
\* renamed_dir, in the try block and again in the except block.
rename_images(image_mapping, enh, cat) ==
  IF enh = <<>> THEN [raised |-> TRUE, renamed |-> <<>>]
  ELSE [raised |-> FALSE,
        renamed |-> DictFromPairs(RenamerLoop(1, image_mapping, enh, cat), <<>>)]

\* ------------------------------------------------------------------------
\* Image-save workflow (ImageSaveController)
\* ------------------------------------------------------------------------

OutputDir == <<"test_device_images", "/">>

NoImages == [kind |-> "none", images |-> <<>>, correct |-> <<>>]

\* The copy loop of _extract_images over enhanced_mapping_data.items(); the
\* extraction directory of the mapper still exists while it runs.
RECURSIVE CopyLoop(_, _, _, _)
CopyLoop(i, md, med, acc) ==
  IF i > Len(md) THEN acc
  ELSE LET fp == md[i][2].file_path
           there == fp # <<>> /\ Basename(fp) \in DOMAIN med
       IN CopyLoop(i + 1, md, med,
                   IF there
                   THEN DictPut(acc, Basename(fp), ExtractDir \o Basename(fp))
                   ELSE acc)

\* The first extracted path a mapping entry is matched to, <<>> when none.
FirstPathFor(info, images) ==
  LET hits == {i \in 1..Len(images) :
                 \/ IsSubstr(info.image_id, images[i][2])
                 \/ IsSubstr(info.actual_file, images[i][2])}
  IN IF hits = {} THEN <<>>
     ELSE images[CHOOSE i \in hits : \A j \in hits : i <= j][2]

\* A file name made from the media file instead of the product identifier.
NewFilenameByImage(info) ==
  <<"pdid">> \o Stem(info.actual_file) \o <<"_">>
    \o (IF info.device_name # <<>>
        THEN convert_device_name_to_pinyin(info.device_name)
        ELSE <<"device">>)
    \o <<".png">>

\* new_filename of _rename_images: pdid{pdid}_{pinyin of the short name}.png
NewFilename(info) ==
  <<"pdid", info.pdid, "_">>
    \o (IF info.device_name # <<>>
        THEN convert_device_name_to_pinyin(info.device_name)
        ELSE <<"device">>)
    \o <<".png">>

\* The loop of _rename_images over enhanced_mapping_data.items().
RECURSIVE RenameLoop(_, _, _, _)
RenameLoop(i, md, images, acc) ==
  IF i > Len(md) THEN acc
  ELSE LET info == md[i][2]
           path == FirstPathFor(info, images)
           usable == info.pdid # "" /\ info.actual_file # <<>> /\ info.image_id # <<>>
           new_filename == NewFilename(info)
       IN RenameLoop(i + 1, md, images,
                     IF usable /\ path # <<>>
                     THEN DictPut(acc, new_filename, path)
                     ELSE acc)

\* ImageSaver.validate_image on a file of the processing directory
ValidSource(path, files) ==
  /\ Dirname(path) = ExtractDir
  /\ Basename(path) \in DOMAIN files
  /\ files[Basename(path)] # "bad"

\* ImageSaver.save_multiple_images: the dict it returns
RECURSIVE save_multiple_images(_, _, _)
save_multiple_images(i, image_mapping, files) ==
  IF i > Len(image_mapping) THEN <<>>
  ELSE (IF ValidSource(image_mapping[i][2], files)
        THEN <<<<image_mapping[i][1], OutputDir \o image_mapping[i][1]>>>>
        ELSE <<>>) \o save_multiple_images(i + 1, image_mapping, files)

\* The files the output directory holds after save_multiple_images.
SavedFiles(out, sv, image_mapping, files) ==
  [n \in DOMAIN out \cup DictKeys(sv) |->
     IF n \in DictKeys(sv)
     THEN files[Basename(DictGet(image_mapping, n))]
     ELSE out[n]]

StartsWith(s, p) == Len(s) >= Len(p) /\ SubSeq(s, 1, Len(p)) = p

FirstIndex(S) == CHOOSE i \in S : \A j \in S : i <= j

\* One record of mapping_relationships in _build_mapping_data.
MappingRelationship(new_filename, original_path, sv, enh) ==
  LET original_filename == Basename(original_path)
      file_based == IF original_filename # <<>> THEN Stem(original_filename)
                    ELSE new_filename
      byFile == {k \in 1..Len(enh) : enh[k][2].actual_file = original_filename}
      original_image_id ==
        IF StartsWith(file_based, IdPrefix) \/ byFile = {} THEN file_based
        ELSE enh[FirstIndex(byFile)][2].image_id
      hits == {k \in 1..Len(enh) :
                 \/ enh[k][2].image_id = original_image_id
                 \/ enh[k][2].actual_file = original_filename}
      found == hits # {}
      info == enh[FirstIndex(hits)][2]
      from_mapping == IF found THEN info.pdid ELSE ""
      product_id ==
        IF from_mapping = "" /\ StartsWith(new_filename, <<"pdid">>)
        THEN new_filename[2]
        ELSE from_mapping
      saved_path == DictGet(sv, new_filename)
      real_image_file ==
        IF HasCjk(Basename(saved_path)) THEN <<"images", "/">> \o new_filename
        ELSE IF StartsWith(saved_path, <<"renamed_device_images", "/">>)
        THEN <<"images", "/">> \o SubSeq(saved_path, 3, Len(saved_path))
        ELSE IF ~StartsWith(saved_path, <<"images", "/">>)
        THEN <<"images", "/">> \o Basename(saved_path)
        ELSE saved_path
  IN [product_id |-> product_id,
      device_name |-> IF found THEN info.device_name ELSE <<>>,
      row_number |-> IF found THEN info.row_number ELSE 0,
      dispimg_formula |-> IF found THEN info.dispimg_formula ELSE NoCell,
      image_id |-> original_image_id,
      rid |-> IF found THEN info.r_id ELSE "",
      original_image_file |-> original_path,
      real_image_file |-> real_image_file,
      mapping_type |-> IF found /\ info.dispimg_formula # NoCell
                       THEN "dispimg_formula" ELSE "direct"]

\* mapping_relationships of ImageSaveController._build_mapping_data
RECURSIVE build_mapping_data(_, _, _, _)
build_mapping_data(i, rn, sv, enh) ==
  IF i > Len(rn) THEN <<>>
  ELSE (IF rn[i][1] \in DictKeys(sv)
        THEN <<MappingRelationship(rn[i][1], rn[i][2], sv, enh)>>
        ELSE <<>>) \o build_mapping_data(i + 1, rn, sv, enh)

\* No image_mapping.json in the output directory.
NoMeta == [exists |-> FALSE, generated_at |-> 0, total_mappings |-> 0]

\* metadata of ImageMappingGenerator.generate_mapping_file: the time of the
\* call and the number of records.
generate_mapping_file(relationships, now) ==
  [exists |-> TRUE, generated_at |-> now, total_mappings |-> Len(relationships)]

NoHistory == [runs |-> 1, kind |-> "first",
              previous |-> [metadata |-> NoMeta, mapping_relationships |-> <<>>]]

\* The first run, at time 0, with no mapping file yet.
RunStart ==
  /\ clock = 0 /\ mappingMeta = NoMeta /\ history = NoHistory
  /\ mapperPos = <<>> /\ extractOwner = 0

NoStatus == [extraction |-> FALSE, renaming |-> FALSE, saving |-> FALSE,
             cleanup |-> FALSE]

NoApiResult == [success |-> FALSE, returned |-> FALSE, mapping_chain |-> <<>>,
                validation_summary |-> validate_mapping_chain(<<>>)]

\* A readable workbook: any rows, any registry, any state of the two chains.
ReadableInputs ==
  /\ readable = TRUE
  /\ imageHeader = TRUE
  /\ registryPart = TRUE
  /\ catalog \in [1..MaxRows -> CatalogRows]
  /\ \E S \in SUBSET ImageIds : registry = [id \in S |-> RidOf(id)]
  /\ \E chain \in [RelIds -> ChainStates] :
       /\ rels = [rid \in {q \in RelIds : chain[q] # "norel"} |-> TargetOf(rid)]
       /\ media = [n \in {Basename(TargetOf(q)) :
                            q \in {x \in RelIds : chain[x] \in {"ok", "corrupt"}}} |->
                     LET rid == CHOOSE q \in RelIds : Basename(TargetOf(q)) = n
                     IN ContentOf(rid, chain[rid])]

\* A readable workbook that does not use the image extension in full: no
\* header names an image column, or the container has no registry part
\* (and then no relationship part of it either); the media files are there.
FeaturelessInputs ==
  /\ readable = TRUE
  /\ catalog \in [1..MaxRows -> CatalogRows]
  /\ imageHeader \in BOOLEAN /\ registryPart \in BOOLEAN
  /\ ~(imageHeader /\ registryPart)
  /\ registry = IF registryPart THEN [id \in ImageIds |-> RidOf(id)] ELSE <<>>
  /\ rels = IF registryPart THEN [rid \in RelIds |-> TargetOf(rid)] ELSE <<>>
  /\ media = [n \in {Basename(TargetOf(q)) : q \in RelIds} |->
                LET rid == CHOOSE q \in RelIds : Basename(TargetOf(q)) = n
                IN ContentOf(rid, "ok")]

\* A file that is no zip container: nothing can be read from it.
UnreadableInputs ==
  /\ readable = FALSE
  /\ imageHeader = FALSE
  /\ registryPart = FALSE
  /\ catalog = [i \in 1..MaxRows |->
                  [pdid |-> 0, short |-> <<"<kai>", "<guan>">>, cell |-> NoCell]]
  /\ registry = <<>>
  /\ rels = <<>>
  /\ media = <<>>

\* State after ImageSaveController.__init__ on a fresh output directory.
SheetStart ==
  /\ ReadableInputs \/ FeaturelessInputs \/ UnreadableInputs
  /\ pc = "start"
  /\ tmpExcel = FALSE
  /\ tmpProc = TRUE
  /\ procFiles = <<>>
  /\ enhanced = <<>>
  /\ extracted = NoImages
  /\ renamed = <<>>
  /\ saved = <<>>
  /\ status = NoStatus
  /\ errors = <<>>
  /\ outDir = <<>>
  /\ mappingFile = <<>>
  /\ result = "none"
  /\ apiResult = NoApiResult
  /\ RunStart

\* What the workbook yields to the mapper: nothing when it is unreadable.
MapperResult ==
  IF readable
  THEN parse_enhanced_mapping(imageHeader, catalog, registryPart, registry,
                              rels, media)
  ELSE <<>>

\* run_complete_workflow returning False after a failed stage.
Fail(errs) ==
  /\ pc' = "failed"
  /\ errors' = errors \o errs
  /\ result' = "False"

\* Stage 1 of run_complete_workflow: _extract_images.
ExtractImages ==
  /\ pc = "start"
  /\ tmpExcel' = FALSE
  /\ IF ~readable
     THEN /\ Fail(<<"extract_exception", "extract_failed">>)
          /\ UNCHANGED <<procFiles, enhanced, extracted, status>>
     ELSE LET md == MapperResult
              copies == CopyLoop(1, md, media, <<>>)
              legacy == extract_all_images(imageHeader, catalog, registry, rels,
                                          media)
              useLegacy == md = <<>> \/ copies = <<>>
          IN /\ enhanced' = md
             /\ extracted' =
                  IF useLegacy
                  THEN [kind |-> "legacy", images |-> legacy.extracted_images,
                        correct |-> legacy.correct_mapping]
                  ELSE [kind |-> "names", images |-> copies, correct |-> <<>>]
             /\ procFiles' =
                  IF useLegacy
                  THEN LegacyFiles(legacy,
                                   parse_wps_cellimages_mapping(registry, rels, media),
                                   media)
                  ELSE [n \in DictKeys(copies) |-> media[n]]
             /\ status' = [status EXCEPT !.extraction = TRUE]
             /\ pc' = "extracted"
             /\ UNCHANGED <<errors, result>>
  /\ UNCHANGED <<inputVars, tmpProc, renamed, saved, outDir, mappingFile, apiResult,
                 deckVars, runVars,
                 mapperVars>>

\* Stage 2: _rename_images.
RenameImages ==
  /\ pc = "extracted"
  /\ LET byMapping == IF enhanced # <<>>
                      THEN RenameLoop(1, enhanced, extracted.images, <<>>)
                      ELSE <<>>
         image_mapping ==
           IF extracted.kind = "legacy"
           THEN IF extracted.correct # <<>> THEN extracted.correct
                ELSE extracted.images
           ELSE <<>>
         traditional == rename_images(image_mapping, MapperResult, catalog)
     IN IF byMapping # <<>>
        THEN /\ renamed' = byMapping
             /\ status' = [status EXCEPT !.renaming = TRUE]
             /\ pc' = "renamed"
             /\ UNCHANGED <<tmpExcel, errors, result>>
        ELSE \* the traditional renamer extracts the workbook and leaves it
             /\ tmpExcel' = TRUE
             /\ IF traditional.raised
                THEN /\ Fail(<<"rename_exception", "rename_failed">>)
                     /\ UNCHANGED <<renamed, status>>
                ELSE IF traditional.renamed # <<>>
                THEN /\ renamed' = traditional.renamed
                     /\ status' = [status EXCEPT !.renaming = TRUE]
                     /\ pc' = "renamed"
                     /\ UNCHANGED <<errors, result>>
                ELSE /\ Fail(<<"rename_failed">>)
                     /\ UNCHANGED <<renamed, status>>
  /\ UNCHANGED <<inputVars, tmpProc, procFiles, enhanced, extracted, saved,
                 outDir, mappingFile, apiResult, deckVars, runVars,
                 mapperVars>>

\* Stage 3: _save_images, which also writes the mapping file. The write
\* of image_mapping.json succeeds or raises inside generate_mapping_file,
\* which then returns False; _save_images does not look at what it returns.
SaveImages ==
  /\ pc = "renamed"
  /\ LET sv == save_multiple_images(1, renamed, procFiles)
     IN IF sv # <<>>
        THEN /\ saved' = sv
             /\ outDir' = SavedFiles(outDir, sv, renamed, procFiles)
             /\ status' = [status EXCEPT !.saving = TRUE]
             /\ \E written \in BOOLEAN :
                  IF written
                  THEN /\ mappingFile' = build_mapping_data(1, renamed, sv, enhanced)
                       /\ mappingMeta' =
                            generate_mapping_file(
                              build_mapping_data(1, renamed, sv, enhanced), clock)
                  ELSE UNCHANGED <<mappingFile, mappingMeta>>
             /\ clock' = clock + 1
             /\ pc' = "saved"
             /\ UNCHANGED <<errors, result>>
        ELSE /\ Fail(<<"save_failed">>)
             /\ UNCHANGED <<saved, outDir, status, mappingFile, mappingMeta, clock>>
  /\ UNCHANGED <<inputVars, tmpExcel, tmpProc, procFiles, enhanced, extracted,
                 renamed, apiResult, deckVars, history,
                 mapperVars>>

\* _cleanup and _generate_report: the processing directory is removed and
\* the cleanup flag set, or rmtree raises and an error is recorded; the
\* report is written, or writing it raises and an error is recorded.
CleanupAndReport(removed, reported) ==
  /\ tmpProc' = (tmpProc /\ ~removed)
  /\ procFiles' = IF removed THEN <<>> ELSE procFiles
  /\ status' = IF removed THEN [status EXCEPT !.cleanup = TRUE] ELSE status
  /\ errors' = errors \o (IF removed THEN <<>> ELSE <<"cleanup_exception">>)
                      \o (IF reported THEN <<>> ELSE <<"report_exception">>)

\* Stages 4 and 5 with a return value that does not look at the errors.
CleanupReturningTrue ==
  /\ pc = "saved"
  /\ \E removed, reported \in BOOLEAN : CleanupAndReport(removed, reported)
  /\ result' = "True"
  /\ pc' = "done"
  /\ UNCHANGED <<inputVars, tmpExcel, enhanced, extracted, renamed, saved,
                 outDir, mappingFile, apiResult, deckVars, runVars,
                 mapperVars>>

\* Stages 4 and 5: _cleanup, _generate_report, and the return value
\* len(errors) == 0.
Cleanup ==
  /\ pc = "saved"
  /\ \E removed, reported \in BOOLEAN : CleanupAndReport(removed, reported)
  /\ result' = IF errors' = <<>> THEN "True" ELSE "False"
  /\ pc' = "done"
  /\ UNCHANGED <<inputVars, tmpExcel, enhanced, extracted, renamed, saved,
                 outDir, mappingFile, apiResult, deckVars, runVars,
                 mapperVars>>

\* parse_enhanced_excel_image_mapping(excel_path): parse, validate, and in
\* the finally block remove the extraction directory before returning.
ParseEnhancedExcelImageMapping ==
  /\ pc = "start"
  /\ apiResult' = [success |-> TRUE, returned |-> TRUE,
                   mapping_chain |-> MapperResult,
                   validation_summary |-> validate_mapping_chain(MapperResult)]
  /\ tmpExcel' = FALSE
  /\ pc' = "api_done"
  /\ UNCHANGED <<inputVars, tmpProc, procFiles, enhanced, extracted, renamed,
                 saved, status, errors, outDir, mappingFile, result, deckVars, runVars,
                 mapperVars>>

\* ------------------------------------------------------------------------
\* The presentation deck
\* ------------------------------------------------------------------------

\* Nesting depth of groups in the decks that are explored.
MaxDepth == 2

\* Number of slides of a deck.
MaxSlides == 1

TextShape(t) == [kind |-> "text", text |-> t, shapes |-> <<>>]
Picture == [kind |-> "picture", text |-> <<>>, shapes |-> <<>>]
GroupShape(children) == [kind |-> "group", text |-> <<>>, shapes |-> children]

\* A text in which the loose pattern matches first (value 2) and the strict
\* pattern matches further right (value 1).
BothPatternsText == <<"pdid", " ", ":", "2", " ", "pdid", ":", "1">>

\* Texts of text shapes, already stripped: a label in the strict form, one
\* in upper case, one in the loose form, one that both patterns match, and
\* a text that is no label.
Texts == {<<"pdid", ":", " ", "1">>, <<"PDID", ":", "2">>,
          <<"pdid", " ", ":", " ", "3">>, BothPatternsText, <<"x">>}

LeafShapes == {TextShape(t) : t \in Texts} \cup {Picture}

RECURSIVE ShapesOfDepth(_)
ShapesOfDepth(d) ==
  IF d = 0 THEN LeafShapes
  ELSE LeafShapes
       \cup {GroupShape(<<a>>) : a \in ShapesOfDepth(d - 1)}
       \cup {GroupShape(<<TextShape(<<"pdid", ":", " ", "1">>), a>>) :
               a \in ShapesOfDepth(d - 1)}

\* Slides: one shape of any depth, alone or followed by a leaf.
Slides ==
  {<<a>> : a \in ShapesOfDepth(MaxDepth)}
    \cup {<<a, b>> : a \in ShapesOfDepth(MaxDepth), b \in LeafShapes}

\* Slides after the first one of a deck.
MoreSlides == {<<TextShape(<<"pdid", ":", " ", "1">>)>>,
               <<GroupShape(<<TextShape(<<"PDID", ":", "2">>)>>)>>}

RECURSIVE DecksOfLength(_)
DecksOfLength(n) ==
  IF n = 0 THEN {<<>>}
  ELSE IF n = 1 THEN {<<s>> : s \in Slides}
  ELSE {Append(d, s) : d \in DecksOfLength(n - 1), s \in MoreSlides}

Decks == UNION {DecksOfLength(n) : n \in 0..MaxSlides}

\* ------------------------------------------------------------------------
\* Label extractor (PDIDExtractor)
\* ------------------------------------------------------------------------

PdidWords == {"pdid", "PDID"}

\* The index after the run of whitespace that starts at i.
RECURSIVE SkipSpaces(_, _)
SkipSpaces(text, i) ==
  IF i <= Len(text) /\ text[i] = " " THEN SkipSpaces(text, i + 1) ELSE i

\* int() of the run of digits that starts at i, continuing the value acc.
RECURSIVE NumberAt(_, _, _)
NumberAt(text, i, acc) ==
  IF i <= Len(text) /\ text[i] \in Digits
  THEN NumberAt(text, i + 1, 10 * acc + DigitValue(text[i]))
  ELSE acc

\* Where the digits start when pdid:\s*(\d+) matches at i, 0 when it does not.
StrictAt(text, i) ==
  IF text[i] \in PdidWords /\ i + 1 <= Len(text) /\ text[i + 1] = ":"
  THEN LET j == SkipSpaces(text, i + 2)
       IN IF j <= Len(text) /\ text[j] \in Digits THEN j ELSE 0
  ELSE 0

\* The same for pdid\s*:\s*(\d+).
LooseAt(text, i) ==
  IF text[i] \in PdidWords
  THEN LET c == SkipSpaces(text, i + 1)
       IN IF c <= Len(text) /\ text[c] = ":"
          THEN LET j == SkipSpaces(text, c + 1)
               IN IF j <= Len(text) /\ text[j] \in Digits THEN j ELSE 0
          ELSE 0
  ELSE 0

\* Both patterns tried, whatever the first one found.
MatchBothPatterns(text) ==
  LET strict == {i \in 1..Len(text) : StrictAt(text, i) # 0}
      loose == {i \in 1..Len(text) : LooseAt(text, i) # 0}
  IN (IF strict # {}
      THEN <<NumberAt(text, StrictAt(text, FirstIndex(strict)), 0)>>
      ELSE <<>>)
     \o (IF loose # {}
         THEN <<NumberAt(text, LooseAt(text, FirstIndex(loose)), 0)>>
         ELSE <<>>)

\* PDIDExtractor._match_pdid_format: the list of values, of length 0 or 1.
match_pdid_format(text) ==
  LET strict == {i \in 1..Len(text) : StrictAt(text, i) # 0}
      loose == {i \in 1..Len(text) : LooseAt(text, i) # 0}
  IN IF strict # {}
     THEN <<NumberAt(text, StrictAt(text, FirstIndex(strict)), 0)>>
     ELSE IF loose # {}
     THEN <<NumberAt(text, LooseAt(text, FirstIndex(loose)), 0)>>
     ELSE <<>>

\* The entries appended for the text of one shape.
TextLabels(shape, type) ==
  IF shape.kind = "text" /\ shape.text # <<>>
  THEN [i \in 1..Len(match_pdid_format(shape.text)) |->
          [pdid |-> match_pdid_format(shape.text)[i], type |-> type,
           text |-> shape.text]]
  ELSE <<>>

\* The inner loop over shape.shapes of a group.
RECURSIVE SubShapeLabels(_)
SubShapeLabels(children) ==
  IF children = <<>> THEN <<>>
  ELSE TextLabels(Head(children), "group_text") \o SubShapeLabels(Tail(children))

\* The loop over slide.shapes: the text of the shape, then, for a group,
\* the texts of its children.
RECURSIVE SlideLabels(_)
SlideLabels(shapes) ==
  IF shapes = <<>> THEN <<>>
  ELSE TextLabels(Head(shapes), "direct_text")
       \o (IF Head(shapes).kind = "group"
           THEN SubShapeLabels(Head(shapes).shapes) ELSE <<>>)
       \o SlideLabels(Tail(shapes))

\* PDIDExtractor.extract_pdid_labels: slide index -> entries of that slide
extract_pdid_labels(d) == [i \in 1..Len(d) |-> SlideLabels(d[i])]

\* ------------------------------------------------------------------------
\* Deck-side pipeline (PDIDAnalysisMain.run_analysis and what it calls)
\* ------------------------------------------------------------------------

\* Product identifiers the catalog read by DeviceInfoQuery may hold.
ProductIds == {1, 2}

\* Python keys: the int n and the str of it are different keys.
IntKey(n) == <<"int", n>>
PyStr(k) == <<"str", ToString(k[2])>>

NoReport == [exists |-> FALSE, pdid_labels |-> <<>>]

\* pdid_extraction_report.json as an earlier run of the extractor left it.
ReportFiles ==
  {NoReport}
    \cup {[exists |-> TRUE, pdid_labels |-> extract_pdid_labels(d)] :
            d \in {<<<<TextShape(<<"pdid", ":", " ", "1">>)>>>>,
                    <<<<TextShape(<<"pdid", ":", " ", "1">>),
                        TextShape(<<"pdid", " ", ":", " ", "3">>)>>,
                      <<TextShape(<<"pdid", ":", " ", "1">>)>>>>}}

\* The labels dict handed over where save_pdid_report expects a path.
LabelsAsPath == [is_path |-> FALSE]

\* PDIDExtractor.save_pdid_report(output_path): open() raises on an argument
\* that is no path, the except block returns False and the file stays.
save_pdid_report(output_path, d, report) ==
  IF output_path.is_path
  THEN [exists |-> TRUE, pdid_labels |-> extract_pdid_labels(d)]
  ELSE report

RECURSIVE Flatten(_)
Flatten(ss) == IF ss = <<>> THEN <<>> ELSE Head(ss) \o Flatten(Tail(ss))

\* sum(len(labels) for labels in pdid_labels.values())
TotalLabels(pl) == Len(Flatten(pl))

\* DeviceStatistics.load_pdid_data: int pdid -> number of labels in the file
load_pdid_data(report) ==
  LET all == Flatten(report.pdid_labels)
      keys == IF report.exists THEN {IntKey(all[i].pdid) : i \in 1..Len(all)}
              ELSE {}
  IN [k \in keys |->
        Cardinality({i \in 1..Len(all) : IntKey(all[i].pdid) = k})]

\* Brand and device name of the catalog row of a product identifier.
BrandOf(p) == IF p = 1 THEN "brand_a" ELSE "brand_b"
DeviceNameOf(p) == IF p = 1 THEN <<"<kai>", "<guan>">> ELSE <<"<wang>", "<guan>", "K">>

\* DeviceInfoQuery.query_device_by_pdid on a loaded catalog
query_device_by_pdid(k, prods) ==
  [pdid |-> k[2], found |-> k[2] \in prods, brand |-> BrandOf(k[2]),
   device_name |-> DeviceNameOf(k[2])]

\* DeviceInfoQuery.query_devices_by_pdid_list: keyed by the pdid as passed
query_devices_by_pdid_list(pdid_list, prods) ==
  [k \in {q \in pdid_list : query_device_by_pdid(q, prods).found} |->
     query_device_by_pdid(k, prods)]

RECURSIVE SumOver(_, _)
SumOver(f, S) ==
  IF S = {} THEN 0
  ELSE LET k == CHOOSE q \in S : TRUE IN f[k] + SumOver(f, S \ {k})

\* A keyword test that asks for the panel keyword before all others.
ExtractCategoryPanelFirst(device_name) ==
  IF IsSubstr(<<"<mian>", "<ban>">>, device_name) THEN "panel"
  ELSE IF IsSubstr(<<"<kai>", "<guan>">>, device_name) THEN "switch"
  ELSE IF IsSubstr(<<"<cha>", "<zuo>">>, device_name) THEN "socket"
  ELSE IF IsSubstr(<<"<chuan>", "<gan>", "<qi>">>, device_name) THEN "sensor"
  ELSE IF IsSubstr(<<"<wang>", "<guan>">>, device_name) THEN "gateway"
  ELSE "other"

\* DeviceStatistics._extract_device_category: the first keyword that occurs
\* in the device name decides.
extract_device_category(device_name) ==
  IF IsSubstr(<<"<kai>", "<guan>">>, device_name) THEN "switch"
  ELSE IF IsSubstr(<<"<cha>", "<zuo>">>, device_name) THEN "socket"
  ELSE IF IsSubstr(<<"<chuan>", "<gan>", "<qi>">>, device_name) THEN "sensor"
  ELSE IF IsSubstr(<<"<wang>", "<guan>">>, device_name) THEN "gateway"
  ELSE IF IsSubstr(<<"<mian>", "<ban>">>, device_name) THEN "panel"
  ELSE "other"

\* A DeviceStatistics instance after __init__, and the dict of a count
\* that matched nothing.
NoStatistics ==
  [total_devices |-> 0, unique_pdids |-> 0, brands |-> 0, categories |-> 0,
   device_counts |-> <<>>, brand_stats |-> <<>>, category_stats |-> <<>>]

\* The four resets at the head of count_devices_by_pdid.
ResetStatistics(self) ==
  [self EXCEPT !.device_counts = <<>>, !.brand_stats = <<>>,
               !.category_stats = <<>>, !.total_devices = 0]

\* defaultdict(list)[key].append(item)
AppendTo(buckets, key, item) ==
  (key :> Append(IF key \in DOMAIN buckets THEN buckets[key] ELSE <<>>, item))
    @@ buckets

\* The loop over pdid_counts.items(): an identifier whose str() is a key of
\* device_mapping is counted and appended to its brand and category lists.
RECURSIVE CountInto(_, _, _, _)
CountInto(self, keys, pdid_counts, device_mapping) ==
  IF keys = {} THEN self
  ELSE LET k == CHOOSE q \in keys : \A r \in keys : q[2] <= r[2]
           info == device_mapping[PyStr(k)]
           item == [pdid |-> k, count |-> pdid_counts[k]]
           counted ==
             [self EXCEPT
                !.device_counts = (k :> pdid_counts[k]) @@ @,
                !.total_devices = @ + pdid_counts[k],
                !.brand_stats = AppendTo(@, info.brand, item),
                !.category_stats =
                  AppendTo(@, extract_device_category(info.device_name), item)]
       IN CountInto(IF PyStr(k) \in DOMAIN device_mapping THEN counted ELSE self,
                    keys \ {k}, pdid_counts, device_mapping)

\* The dict made of the fields of the instance.
StatisticsDict(self) ==
  [self EXCEPT !.unique_pdids = Cardinality(DOMAIN self.device_counts),
               !.brands = Cardinality(DOMAIN self.brand_stats),
               !.categories = Cardinality(DOMAIN self.category_stats)]

\* A count that goes on from what the instance holds.
CountWithoutReset(self, pdid_counts, device_mapping) ==
  StatisticsDict(CountInto(self, DOMAIN pdid_counts, pdid_counts, device_mapping))

\* DeviceStatistics.count_devices_by_pdid: the fields of the instance after
\* the call, which are the dict it returns.
count_devices_by_pdid(self, pdid_counts, device_mapping) ==
  StatisticsDict(CountInto(ResetStatistics(self), DOMAIN pdid_counts,
                           pdid_counts, device_mapping))

NoAnalysis == [success |-> TRUE, errors |-> <<>>, pdid_count |-> 0]

\* The spreadsheet side at rest while the deck side runs, and the reverse.
SheetIdle ==
  /\ catalog = <<>> /\ registry = <<>> /\ rels = <<>> /\ media = <<>>
  /\ readable = FALSE /\ imageHeader = FALSE /\ registryPart = FALSE
  /\ pc = "idle" /\ tmpExcel = FALSE /\ tmpProc = FALSE
  /\ procFiles = <<>> /\ enhanced = <<>> /\ extracted = NoImages
  /\ renamed = <<>> /\ saved = <<>> /\ status = NoStatus /\ errors = <<>>
  /\ outDir = <<>> /\ mappingFile = <<>> /\ result = "none"
  /\ apiResult = NoApiResult /\ RunStart

DeckIdle ==
  /\ deck = <<>> /\ products = {} /\ reportFile = NoReport /\ dpc = "idle"
  /\ labels = <<>> /\ pdidCounts = <<>> /\ deviceMapping = <<>>
  /\ statistics = NoStatistics /\ analysis = NoAnalysis

\* State before run_analysis: a deck, a catalog, and the working directory.
DeckInit ==
  /\ SheetIdle
  /\ deck \in Decks
  /\ products \in SUBSET ProductIds
  /\ reportFile \in ReportFiles
  /\ dpc = "start"
  /\ labels = <<>>
  /\ pdidCounts = <<>>
  /\ deviceMapping = <<>>
  /\ statistics = NoStatistics
  /\ analysis = NoAnalysis

\* run_analysis returning after a failed step.
AnalysisFails(position, error) ==
  /\ dpc' = position
  /\ analysis' = [analysis EXCEPT !.success = FALSE,
                                   !.errors = Append(@, error)]

\* Step 1, first half: load the deck and extract the labels.
ExtractLabels ==
  /\ dpc = "start"
  /\ labels' = extract_pdid_labels(deck)
  /\ IF extract_pdid_labels(deck) = <<>>
     THEN AnalysisFails("failed_extract", "no_labels")
     ELSE dpc' = "extracted" /\ UNCHANGED analysis
  /\ UNCHANGED <<sheetVars, deck, products, reportFile, pdidCounts,
                 deviceMapping, statistics>>

\* Step 1, second half: save_pdid_report(pdid_labels).
SavePdidReport ==
  /\ dpc = "extracted"
  /\ reportFile' = save_pdid_report(LabelsAsPath, deck, reportFile)
  /\ analysis' = [analysis EXCEPT !.pdid_count = TotalLabels(labels)]
  /\ dpc' = "reported"
  /\ UNCHANGED <<sheetVars, deck, products, labels, pdidCounts, deviceMapping,
                 statistics>>

\* Step 2, first half: load_pdid_data() from the default report file.
LoadPdidData ==
  /\ dpc = "reported"
  /\ pdidCounts' = load_pdid_data(reportFile)
  /\ IF DOMAIN load_pdid_data(reportFile) = {}
     THEN AnalysisFails("failed_load", "no_pdid_data")
     ELSE dpc' = "loaded" /\ UNCHANGED analysis
  /\ UNCHANGED <<sheetVars, deck, products, reportFile, labels, deviceMapping,
                 statistics>>

\* Step 2, second half: query_devices_by_pdid_list(list(pdid_counts.keys())).
QueryDevices ==
  /\ dpc = "loaded"
  /\ deviceMapping' = query_devices_by_pdid_list(DOMAIN pdidCounts, products)
  /\ IF DOMAIN query_devices_by_pdid_list(DOMAIN pdidCounts, products) = {}
     THEN AnalysisFails("failed_query", "no_device_info")
     ELSE dpc' = "queried" /\ UNCHANGED analysis
  /\ UNCHANGED <<sheetVars, deck, products, reportFile, labels, pdidCounts,
                 statistics>>

\* Step 3: count_devices_by_pdid(pdid_counts, device_mapping).
CountDevices ==
  /\ dpc = "queried"
  /\ statistics' = count_devices_by_pdid(statistics, pdidCounts, deviceMapping)
  /\ IF count_devices_by_pdid(statistics, pdidCounts, deviceMapping).total_devices = 0
     THEN AnalysisFails("failed_count", "no_devices_counted")
     ELSE dpc' = "counted" /\ UNCHANGED analysis
  /\ UNCHANGED <<sheetVars, deck, products, reportFile, labels, pdidCounts,
                 deviceMapping>>

DeckNext ==
  \/ ExtractLabels
  \/ SavePdidReport
  \/ LoadPdidData
  \/ QueryDevices
  \/ CountDevices

DeckSpec == DeckInit /\ [][DeckNext]_vars

\* ------------------------------------------------------------------------
\* Reruns of the image-save workflow
\* ------------------------------------------------------------------------

\* Number of runs of the workflow on one output directory.
MaxRuns == 2

\* A new ImageSaveController and the mapping file the finished run left.
NewController(kind) ==
  /\ pc' = "start"
  /\ tmpProc' = TRUE
  /\ procFiles' = <<>>
  /\ enhanced' = <<>>
  /\ extracted' = NoImages
  /\ renamed' = <<>>
  /\ saved' = <<>>
  /\ status' = NoStatus
  /\ errors' = <<>>
  /\ result' = "none"
  /\ history' = [runs |-> history.runs + 1, kind |-> kind,
                 previous |-> [metadata |-> mappingMeta,
                               mapping_relationships |-> mappingFile]]

\* The output directory is emptied and the workflow is started again on
\* the unmodified workbook.
ClearOutputAndRerun ==
  /\ pc = "done"
  /\ history.runs < MaxRuns
  /\ NewController("cleared")
  /\ outDir' = <<>>
  /\ mappingFile' = <<>>
  /\ mappingMeta' = NoMeta
  /\ UNCHANGED <<inputVars, tmpExcel, apiResult, clock, deckVars,
                 mapperVars>>

\* The workflow is started again on the output directory as it is, after
\* the product identifier of the first data row may have been edited.
Rerun ==
  /\ pc = "done"
  /\ history.runs < MaxRuns
  /\ NewController("kept")
  /\ \E p \in PdidCells : catalog' = [catalog EXCEPT ![1].pdid = p]
  /\ UNCHANGED <<registry, rels, media, readable, imageHeader, registryPart,
                 tmpExcel, outDir, mappingFile,
                 mappingMeta, apiResult, clock, deckVars,
                 mapperVars>>

\* ------------------------------------------------------------------------
\* The spreadsheet-side specification
\* ------------------------------------------------------------------------

Init == SheetStart /\ DeckIdle

Next ==
  \/ ExtractImages
  \/ RenameImages
  \/ SaveImages
  \/ Cleanup
  \/ ParseEnhancedExcelImageMapping
  \/ ClearOutputAndRerun
  \/ Rerun

Spec == Init /\ [][Next]_vars

\* ------------------------------------------------------------------------
\* Filesystem and catalog views used by the properties
\* ------------------------------------------------------------------------

\* os.path.exists on a path below the mapper's extraction directory.
OnDisk(path) ==
  /\ StartsWith(path, TempMediaDir)
  /\ tmpExcel
  /\ Basename(path) \in DOMAIN media

\* Sheet rows whose image cell holds a recognizable formula.
RecognizedRows ==
  {r \in 2..(Len(catalog) + 1) :
     imageHeader /\ catalog[r - 1].cell.marker /\ PrimaryMatch(catalog[r - 1].cell)}

EntriesOfRow(chain, r) == {i \in 1..Len(chain) : chain[i][2].row_number = r}

\* An identifier as written, with the prefix put before it, and without it.
BothForms(id) ==
  {id, IdPrefix \o id}
    \cup (IF StartsWith(id, IdPrefix) /\ Len(id) > 1 THEN {Tail(id)} ELSE {})

\* The container holds a media file for the identifier under some form.
Resolvable(id) ==
  \E f \in BothForms(id) :
    /\ f \in DOMAIN registry
    /\ registry[f] \in DOMAIN rels
    /\ Basename(rels[registry[f]]) \in DOMAIN media

\* Recognized rows that share their mapping key with no other recognized row.
OwnKeyRows ==
  {r \in RecognizedRows :
     \A q \in RecognizedRows \ {r} :
       MappingKey(PdidText(catalog[q - 1].pdid), q)
         # MappingKey(PdidText(catalog[r - 1].pdid), r)}

\* ------------------------------------------------------------------------
\* Properties of the spreadsheet side
\* ------------------------------------------------------------------------

\* C1 (row coverage): once the mapping is returned, every row with a
\* recognizable formula has exactly one entry with its row number in the
\* resolver output, and total_mappings is the number of those rows.
C1_RowCoverage ==
  apiResult.returned =>
    /\ \A r \in RecognizedRows :
         Cardinality(EntriesOfRow(apiResult.mapping_chain, r)) = 1
    /\ apiResult.validation_summary.total_mappings = Cardinality(RecognizedRows)

\* C2 (unresolved rows are kept): a recognized row whose identifier leads to
\* no existing media file under either form still has an entry in the
\* resolver output, and that entry has the status missing_image.
C2_UnresolvedKept ==
  apiResult.returned =>
    \A r \in RecognizedRows :
      ~Resolvable(catalog[r - 1].cell.id) =>
        \E i \in EntriesOfRow(apiResult.mapping_chain, r) :
          apiResult.mapping_chain[i][2].validation_status = "missing_image"

\* C3 (both prefix forms): a recognized row whose identifier has a media
\* file under the form with or the form without ID_, whichever side carries
\* the prefix, is matched to that registry entry.
C3_BothPrefixForms ==
  apiResult.returned =>
    \A r \in OwnKeyRows :
      Resolvable(catalog[r - 1].cell.id) =>
        \E i \in EntriesOfRow(apiResult.mapping_chain, r) :
          apiResult.mapping_chain[i][2].image_id
            \in BothForms(catalog[r - 1].cell.id)

\* Pairs of resolver entries of different products whose rows reference the
\* same image identifier, resolved to a media file that is a valid image.
SharedImagePairs ==
  {pr \in (1..Len(enhanced)) \X (1..Len(enhanced)) :
     LET a == enhanced[pr[1]][2]
         b == enhanced[pr[2]][2]
     IN /\ pr[1] < pr[2]
        /\ a.pdid # "" /\ b.pdid # "" /\ a.pdid # b.pdid
        /\ a.dispimg_formula.id = b.dispimg_formula.id
        /\ a.actual_file \in DOMAIN media
        /\ media[a.actual_file] # "bad"}

\* File names of the output directory made for a product identifier.
FilesOfProduct(pdid) ==
  {n \in DOMAIN outDir : StartsWith(n, <<"pdid", pdid, "_">>)}

\* C7 (one file per product): when the run has passed the save stage or has
\* ended, two products whose rows reference the same image identifier each
\* have a file of their own in the output directory, the two files are
\* distinct, and both hold the content of the one underlying media file.
C7_OneFilePerProduct ==
  pc \in {"saved", "done", "failed"} =>
    \A pr \in SharedImagePairs :
      LET a == enhanced[pr[1]][2]
          b == enhanced[pr[2]][2]
      IN \E n \in FilesOfProduct(a.pdid), m \in FilesOfProduct(b.pdid) :
           /\ n # m
           /\ outDir[n] = media[a.actual_file]
           /\ outDir[m] = media[a.actual_file]

\* C7 witness: a finished run in which two products shared one image.
C7_Witness == pc = "done" /\ SharedImagePairs # {} /\ Cardinality(DOMAIN outDir) > 1

\* C8 (mapping file): for every product whose image was materialized, the
\* mapping file has a record with that product's identifier, that product's
\* file, and that product's formula, image identifier and relationship id.
C8_MappingFileOwnRecord ==
  pc \in {"saved", "done"} =>
    \A i \in 1..Len(enhanced) :
      LET e == enhanced[i][2]
      IN (e.pdid # "" /\ NewFilename(e) \in DictKeys(saved)) =>
           \E k \in 1..Len(mappingFile) :
             /\ mappingFile[k].product_id = e.pdid
             /\ Basename(mappingFile[k].real_image_file) = NewFilename(e)
             /\ mappingFile[k].dispimg_formula = e.dispimg_formula
             /\ mappingFile[k].image_id = e.image_id
             /\ mappingFile[k].rid = e.r_id

\* C9 (temporary directories): when a run has ended, with success or with a
\* failure at any stage, neither the mapper's extraction directory nor the
\* controller's processing directory exists.
C9_TempReleased ==
  pc \in {"done", "failed"} => ~tmpExcel /\ ~tmpProc

\* C10 (status and disk): in every returned entry the status is one of the
\* three values, and it is complete exactly when the product identifier is
\* non-empty and the file at the entry's media path exists at that time.
C10_StatusIffOnDisk ==
  apiResult.returned =>
    \A i \in 1..Len(apiResult.mapping_chain) :
      LET e == apiResult.mapping_chain[i][2]
      IN /\ e.validation_status \in {"complete", "missing_pdid", "missing_image"}
         /\ e.validation_status = "complete"
              <=> (e.pdid # "" /\ OnDisk(e.file_path))

\* ------------------------------------------------------------------------
\* Properties of the deck side
\* ------------------------------------------------------------------------

\* The values of all label texts of a shape list, at every depth.
RECURSIVE DeepLabels(_)
DeepLabels(shapes) ==
  IF shapes = <<>> THEN <<>>
  ELSE (IF Head(shapes).kind = "text"
        THEN match_pdid_format(Head(shapes).text) ELSE <<>>)
       \o DeepLabels(Head(shapes).shapes)
       \o DeepLabels(Tail(shapes))

Occurrences(seq, v) == Cardinality({i \in 1..Len(seq) : seq[i] = v})

\* C4 (every depth): for every slide and every label value, the extractor
\* returns as many entries with that value as the slide has text shapes
\* carrying it, whatever the number of groups around them.
C4_EveryDepth ==
  dpc # "start" =>
    \A s \in 1..Len(deck) :
      LET found == [i \in 1..Len(labels[s]) |-> labels[s][i].pdid]
          there == DeepLabels(deck[s])
      IN \A i \in 1..Len(there) :
           Occurrences(found, there[i]) = Occurrences(there, there[i])

\* C5 (conservation): the result of the count surfaces the number of
\* unmatched labels, and the counts of the matched identifiers plus that
\* number give the number of labels found.
C5_Conservation ==
  dpc \in {"counted", "failed_count"} =>
    /\ "unmatched" \in DOMAIN statistics
    /\ SumOver(statistics.device_counts, DOMAIN statistics.device_counts)
         + statistics.unmatched = TotalLabels(labels)

\* C6 (matched labels are counted): after the count, total_devices is the
\* number of extracted labels whose value is a product identifier of the
\* catalog, and each such identifier's count is its number of labels.
C6_MatchedLabelsCounted ==
  dpc \in {"counted", "failed_count"} =>
    LET all == Flatten(labels)
        matched == {i \in 1..Len(all) : all[i].pdid \in products}
    IN /\ statistics.total_devices = Cardinality(matched)
       /\ \A i \in matched :
            /\ IntKey(all[i].pdid) \in DOMAIN statistics.device_counts
            /\ statistics.device_counts[IntKey(all[i].pdid)]
                 = Cardinality({j \in matched : all[j].pdid = all[i].pdid})

\* ------------------------------------------------------------------------
\* The validator on its own (EnhancedExcelImageMapper.validate_mapping_chain
\* called on any mapping data)
\* ------------------------------------------------------------------------

\* Number of entries of the mapping data handed to the validator.
MaxEntries == 3

\* The i-th entry of a mapping: with or without product identifier, with
\* or without media file, still carrying the resolver's provisional status.
EntriesAt(i) ==
  {<<MappingKey(pdid, i + 1),
     [pdid |-> pdid,
      device_name |-> <<"<kai>", "<guan>">>,
      row_number |-> i + 1,
      dispimg_formula |-> Formula("=", FALSE, <<"A">>),
      image_id |-> <<"A">>,
      r_id |-> "rId1",
      actual_file |-> file,
      file_path |-> IF file = <<>> THEN <<>> ELSE TempMediaDir \o file,
      validation_status |->
        IF pdid # "" /\ file # <<>> THEN "complete" ELSE "incomplete"]>> :
     pdid \in {"", ToString(i)}, file \in {<<>>, Basename(TargetOf("rId1"))}}

RECURSIVE MappingsOfLength(_)
MappingsOfLength(n) ==
  IF n = 0 THEN {<<>>}
  ELSE {Append(md, e) : md \in MappingsOfLength(n - 1), e \in EntriesAt(n)}

ValidatorInit ==
  /\ catalog = <<>> /\ registry = <<>> /\ rels = <<>> /\ media = <<>>
  /\ readable = FALSE /\ imageHeader = FALSE /\ registryPart = FALSE
  /\ pc = "entries" /\ tmpExcel = FALSE /\ tmpProc = FALSE
  /\ procFiles = <<>>
  /\ enhanced \in UNION {MappingsOfLength(n) : n \in 0..MaxEntries}
  /\ extracted = NoImages
  /\ renamed = <<>> /\ saved = <<>> /\ status = NoStatus /\ errors = <<>>
  /\ outDir = <<>> /\ mappingFile = <<>> /\ result = "none"
  /\ apiResult = NoApiResult
  /\ RunStart
  /\ DeckIdle

\* mapper.validate_mapping_chain(mapping_data): the statuses are written
\* into the entries, the summary is returned.
ValidateMappingChain ==
  /\ pc = "entries"
  /\ enhanced' = ValidatedEntries(enhanced)
  /\ apiResult' = [NoApiResult EXCEPT
                     !.mapping_chain = ValidatedEntries(enhanced),
                     !.validation_summary = validate_mapping_chain(enhanced)]
  /\ pc' = "validated"
  /\ UNCHANGED <<inputVars, tmpExcel, tmpProc, procFiles, extracted, renamed,
                 saved, status, errors, outDir, mappingFile, result, deckVars, runVars,
                 mapperVars>>

ValidatorNext == ValidateMappingChain

ValidatorSpec == ValidatorInit /\ [][ValidatorNext]_vars

\* C11 (partition): after validation every entry has exactly one of the
\* three statuses, the three counters count the entries of their status,
\* and they add up to total_mappings.
C11_Partition ==
  pc = "validated" =>
    LET md == apiResult.mapping_chain
        vs == apiResult.validation_summary
        Having(st) == Cardinality({i \in 1..Len(md) : md[i][2].validation_status = st})
    IN /\ \A i \in 1..Len(md) :
            md[i][2].validation_status \in {"complete", "missing_pdid", "missing_image"}
       /\ vs.total_mappings = Len(md)
       /\ vs.complete_mappings = Having("complete")
       /\ vs.missing_pdid = Having("missing_pdid")
       /\ vs.missing_images = Having("missing_image")
       /\ vs.complete_mappings + vs.missing_pdid + vs.missing_images
            = vs.total_mappings

\* C11 witness: a validated mapping in which all three statuses occur.
C11_Witness ==
  /\ pc = "validated"
  /\ apiResult.validation_summary.complete_mappings > 0
  /\ apiResult.validation_summary.missing_pdid > 0
  /\ apiResult.validation_summary.missing_images > 0

\* C12 as claimed (exact rate): the rate is complete / total * 100 exactly,
\* here in hundredths of a percent, and 0 for an empty mapping.
C12_ExactRate ==
  pc = "validated" =>
    LET vs == apiResult.validation_summary
    IN IF vs.total_mappings = 0 THEN vs.completeness_rate_x100 = 0
       ELSE vs.completeness_rate_x100 * vs.total_mappings
              = vs.complete_mappings * 10000

\* C12 as amended (rate rounded to two decimals): the rate is a whole
\* number of hundredths of a percent that differs from complete / total
\* * 100 by at most half a hundredth, and 0 for an empty mapping.
C12_RoundedRate ==
  pc = "validated" =>
    LET vs == apiResult.validation_summary
        diff == vs.completeness_rate_x100 * vs.total_mappings
                  - vs.complete_mappings * 10000
    IN IF vs.total_mappings = 0 THEN vs.completeness_rate_x100 = 0
       ELSE 2 * diff <= vs.total_mappings /\ 2 * (0 - diff) <= vs.total_mappings

\* C12 witness: a validated mapping whose rate is no whole number of
\* hundredths, such as two complete entries of three.
C12_Witness ==
  /\ pc = "validated"
  /\ apiResult.validation_summary.total_mappings > 0
  /\ apiResult.validation_summary.completeness_rate_x100
       * apiResult.validation_summary.total_mappings
       # apiResult.validation_summary.complete_mappings * 10000

\* C13 (only an unreadable container halts): when a deck-side run on a
\* deck that loads has ended and the deck holds no label, or no label whose
\* value is a product identifier of the catalog, the run has not failed.
C13_GracefulDegradation ==
  (/\ dpc \in {"failed_extract", "failed_load", "failed_query", "failed_count",
                "counted"}
   /\ \A i \in 1..Len(Flatten(labels)) : Flatten(labels)[i].pdid \notin products)
    => analysis.success

\* C14 (idempotence): when the workflow has been run again on the
\* unmodified workbook with the output directory emptied in between, the
\* mapping file it writes equals the one the run before had written.
C14_IdenticalMappingFiles ==
  (pc \in {"saved", "done"} /\ history.kind = "cleared") =>
    [metadata |-> mappingMeta, mapping_relationships |-> mappingFile]
      = history.previous

\* C15 (last run wins): after a rerun has finished, every image file of the
\* output directory was saved by that run, and the mapping file is the one
\* that run generated.
C15_LastRunWins ==
  (pc = "done" /\ history.runs > 1) =>
    /\ DOMAIN outDir \subseteq DictKeys(saved)
    /\ mappingMeta.exists /\ mappingMeta.generated_at = clock - 1
    /\ mappingFile = build_mapping_data(1, renamed, saved, enhanced)

\* ------------------------------------------------------------------------
\* File names for any short name
\* ------------------------------------------------------------------------

MaxNameLen == 3

\* Characters of a short name: known and unknown CJK, ASCII, a letter
\* outside both, a separator and punctuation that every branch skips.
NameChars == {"<kai>", "<rare>", "K", "<kana>", " ", "!"}

RECURSIVE NamesOfLength(_)
NamesOfLength(n) ==
  IF n = 0 THEN {<<>>}
  ELSE {<<c>> \o rest : c \in NameChars, rest \in NamesOfLength(n - 1)}

\* A catalog of one row whose product identifier and short name are given;
\* nothing has been named yet.
NamingInit ==
  /\ \E p \in PdidCells \ {0} :
       \E n \in UNION {NamesOfLength(k) : k \in 1..MaxNameLen} :
         catalog = <<[pdid |-> p, short |-> n, cell |-> NoCell]>>
  /\ registry = <<>> /\ rels = <<>> /\ media = <<>>
  /\ readable = TRUE /\ imageHeader = FALSE /\ registryPart = FALSE
  /\ pc = "names" /\ tmpExcel = FALSE /\ tmpProc = FALSE
  /\ procFiles = <<>> /\ enhanced = <<>> /\ extracted = NoImages
  /\ renamed = <<>> /\ saved = <<>> /\ status = NoStatus /\ errors = <<>>
  /\ outDir = <<>> /\ mappingFile = <<>> /\ result = "none"
  /\ apiResult = NoApiResult
  /\ RunStart
  /\ DeckIdle

NamingUnchanged ==
  UNCHANGED <<inputVars, tmpExcel, tmpProc, procFiles, enhanced, extracted,
              saved, status, errors, outDir, mappingFile, result, apiResult,
              deckVars, runVars,
                 mapperVars>>

\* new_filename of ImageSaveController._rename_images for the row
ControllerNamesRow ==
  /\ pc = "names"
  /\ renamed' = <<<<NewFilename([pdid |-> PdidText(catalog[1].pdid),
                                 device_name |-> catalog[1].short,
                                 actual_file |-> Basename(TargetOf("rId1"))]),
                    <<>>>>>>
  /\ pc' = "named_by_controller"
  /\ NamingUnchanged

\* ImageRenamer.generate_image_filename for the row
RenamerNamesRow ==
  /\ pc = "names"
  /\ renamed' = <<<<generate_image_filename(PdidText(catalog[1].pdid),
                                             catalog[1].short),
                    <<>>>>>>
  /\ pc' = "named_by_renamer"
  /\ NamingUnchanged

NamingNext == ControllerNamesRow \/ RenamerNamesRow

NamingSpec == NamingInit /\ [][NamingNext]_vars

\* Tokens that stand for characters outside [A-Za-z0-9_.]
UnsafeChars == CjkChars \cup OtherAlnum \cup {" ", "-", "!"}

\* C16: every generated file name, for every product identifier and every
\* short name, consists of ASCII letters, ASCII digits, underscore and the
\* extension dot only.
C16_SafeFileNames ==
  pc \in {"named_by_controller", "named_by_renamer"} =>
    \A i \in 1..Len(renamed) :
      \A j \in 1..Len(renamed[i][1]) : renamed[i][1][j] \notin UnsafeChars
\* ------------------------------------------------------------------------
\* Names and tags of the materialized files
\* ------------------------------------------------------------------------

\* C17: every materialized file is named
\* <product-identifier>_<short name>.<original extension>: its name starts
\* with a product identifier of the catalog and ends with the extension of
\* the media file it was copied from.
C17_NameAndExtension ==
  pc \in {"saved", "done"} =>
    \A i \in 1..Len(renamed) :
      LET name == renamed[i][1]
          source == renamed[i][2]
      IN name \in DictKeys(saved) =>
           /\ name[Len(name)] = source[Len(source)]
           /\ \E r \in 1..Len(catalog) :
                /\ catalog[r].pdid # 0
                /\ StartsWith(name, <<PdidText(catalog[r].pdid), "_">>)

\* C18: in the mapping file a record whose formula is known carries the
\* mapping type direct, and a record without a formula carries another tag.
C18_DirectForFormulaChain ==
  pc \in {"saved", "done"} =>
    \A k \in 1..Len(mappingFile) :
      (mappingFile[k].dispimg_formula # NoCell)
        <=> (mappingFile[k].mapping_type = "direct")
\* ------------------------------------------------------------------------
\* One label per shape
\* ------------------------------------------------------------------------

\* The texts of the text shapes of a shape list, in order.
RECURSIVE TextsOf(_)
TextsOf(shapes) ==
  IF shapes = <<>> THEN <<>>
  ELSE (IF Head(shapes).kind = "text" THEN <<Head(shapes).text>> ELSE <<>>)
       \o TextsOf(Tail(shapes))

\* The texts of the text shapes that are children of the groups of a slide.
RECURSIVE GroupChildTexts(_)
GroupChildTexts(shapes) ==
  IF shapes = <<>> THEN <<>>
  ELSE TextsOf(Head(shapes).shapes) \o GroupChildTexts(Tail(shapes))

EntriesOfType(entries, type) ==
  LET of == {i \in 1..Len(entries) : entries[i].type = type}
  IN [t \in Texts |-> Cardinality({i \in of : entries[i].text = t})]

\* C19 (exactly-once label): on every slide the extractor returns, for each
\* text, no more entries than the slide has shapes with that text (top-level
\* shapes for direct_text, children of groups for group_text), so no shape
\* contributes two entries; and the value of an entry is the one of the
\* strict pattern whenever the strict pattern matches its text.
C19_AtMostOnePerShape ==
  dpc # "start" =>
    \A s \in 1..Len(deck) :
      /\ \A t \in Texts :
           /\ EntriesOfType(labels[s], "direct_text")[t]
                <= Occurrences(TextsOf(deck[s]), t)
           /\ EntriesOfType(labels[s], "group_text")[t]
                <= Occurrences(GroupChildTexts(deck[s]), t)
      /\ \A i \in 1..Len(labels[s]) :
           LET text == labels[s][i].text
               strict == {j \in 1..Len(text) : StrictAt(text, j) # 0}
           IN strict # {} =>
                labels[s][i].pdid
                  = NumberAt(text, StrictAt(text, FirstIndex(strict)), 0)

\* C19 witness: a shape whose text both patterns match has given its entry.
C19_Witness ==
  /\ dpc # "start"
  /\ \E s \in 1..Len(deck) :
       /\ Occurrences(TextsOf(deck[s]), BothPatternsText) = 1
       /\ \E i \in 1..Len(labels[s]) :
            labels[s][i].text = BothPatternsText /\ labels[s][i].pdid = 1
\* ------------------------------------------------------------------------
\* Tie-break of the resolver
\* ------------------------------------------------------------------------

\* The registry holds the identifier in this form, with a relationship
\* record and its media file.
LeadsToMedia(f) ==
  /\ f \in DOMAIN registry
  /\ registry[f] \in DOMAIN rels
  /\ Basename(rels[registry[f]]) \in DOMAIN media

\* Rows whose identifier is registered as written and with ID_ before it,
\* under different relationship records that both lead to a media file.
TieRows ==
  {r \in OwnKeyRows :
     LET id == catalog[r - 1].cell.id
     IN /\ LeadsToMedia(id) /\ LeadsToMedia(IdPrefix \o id)
        /\ registry[id] # registry[IdPrefix \o id]}

C21_FeatureAbsentIsEmpty ==
  (apiResult.returned /\ readable /\ ~(imageHeader /\ registryPart)) =>
    /\ apiResult.success
    /\ apiResult.mapping_chain = <<>>
    /\ apiResult.validation_summary.total_mappings = 0

\* C21 witness: the mapper has returned for a workbook whose rows hold
\* formulas and whose registry resolves them, but without the header.
C21_Witness ==
  /\ apiResult.returned /\ readable /\ ~imageHeader /\ registryPart
  /\ \E r \in 1..Len(catalog) :
       catalog[r].cell.marker /\ PrimaryMatch(catalog[r].cell)
\* ------------------------------------------------------------------------
\* Effects of the completeness validator
\* ------------------------------------------------------------------------

\* C22 (no side effect): a call of validate_mapping_chain leaves every
\* field of every entry it is given, the validation status included, as it
\* was before the call.
C22_InputUntouched == [][pc = "entries" => enhanced' = enhanced]_vars
\* ------------------------------------------------------------------------
\* What the deck-side aggregates depend on
\* ------------------------------------------------------------------------

\* C23 (no implicit file discovery): the counts a run aggregates are those
\* of the labels extracted in that same run, whatever report file an
\* earlier run left in the working directory.
C23_CountsOfThisRun ==
  dpc \in {"loaded", "queried", "counted", "failed_load", "failed_query",
           "failed_count"} =>
    pdidCounts = load_pdid_data([exists |-> TRUE, pdid_labels |-> labels])
\* ------------------------------------------------------------------------
\* Calls of count_devices_by_pdid on one DeviceStatistics instance
\* ------------------------------------------------------------------------

\* Device names: one per keyword, names with two keywords in either order,
\* a name in which a keyword straddles another, and names without keyword.
DeviceNames ==
  {<<"<kai>", "<guan>">>, <<"<cha>", "<zuo>">>, <<"<chuan>", "<gan>", "<qi>">>,
   <<"<wang>", "<guan>">>, <<"<mian>", "<ban>">>,
   <<"<kai>", "<guan>", "<mian>", "<ban>">>,
   <<"<mian>", "<ban>", "<kai>", "<guan>">>,
   <<"<wang>", "<guan>", "<cha>", "<zuo>">>,
   <<"<kai>", "<wang>", "<guan>">>, <<"K">>, <<>>}

Brands == {"brand_a", "brand_b"}

\* pdid -> number of labels: products 1 and 2 and a label value 3
PdidCountsInputs ==
  {[k \in S |-> IF k = IntKey(1) THEN c ELSE 1] :
     S \in SUBSET {IntKey(1), IntKey(2), IntKey(3)}, c \in {1, 2}}

\* str(pdid) -> device info: product 1 under any name, product 2 or not
DeviceMappingInputs ==
  {[k \in {<<"str", "1">>} |->
      [pdid |-> 1, found |-> TRUE, brand |-> "brand_a", device_name |-> n]] :
     n \in DeviceNames}
  \cup
  {[k \in {<<"str", "1">>, <<"str", "2">>} |->
      IF k[2] = "1"
      THEN [pdid |-> 1, found |-> TRUE, brand |-> "brand_a", device_name |-> n]
      ELSE [pdid |-> 2, found |-> TRUE, brand |-> b, device_name |-> m]] :
     n \in DeviceNames, b \in Brands,
     m \in {<<"<kai>", "<guan>">>, <<"<wang>", "<guan>">>}}

\* A DeviceStatistics instance after __init__.
StatisticsInit ==
  /\ SheetIdle
  /\ deck = <<>> /\ products = {} /\ reportFile = NoReport /\ labels = <<>>
  /\ dpc = "instance"
  /\ pdidCounts = <<>> /\ deviceMapping = <<>>
  /\ statistics = NoStatistics /\ analysis = NoAnalysis

\* A call of count_devices_by_pdid, the first one or a later one.
CountDevicesByPdid ==
  /\ dpc \in {"instance", "called", "called_again"}
  /\ \E pdid_counts \in PdidCountsInputs, device_mapping \in DeviceMappingInputs :
       /\ pdidCounts' = pdid_counts
       /\ deviceMapping' = device_mapping
       /\ statistics' = count_devices_by_pdid(statistics, pdid_counts, device_mapping)
  /\ dpc' = IF dpc = "instance" THEN "called" ELSE "called_again"
  /\ UNCHANGED <<sheetVars, deck, products, reportFile, labels, analysis>>

StatisticsNext == CountDevicesByPdid

StatisticsSpec == StatisticsInit /\ [][StatisticsNext]_vars

\* The keywords in the order of the claim, each with its category.
OrderedKeywords ==
  <<<<<<"<kai>", "<guan>">>, "switch">>, <<<<"<cha>", "<zuo>">>, "socket">>,
    <<<<"<chuan>", "<gan>", "<qi>">>, "sensor">>,
    <<<<"<wang>", "<guan>">>, "gateway">>, <<<<"<mian>", "<ban>">>, "panel">>>>

FirstKeywordCategory(name) ==
  LET hits == {i \in 1..Len(OrderedKeywords) :
                 IsSubstr(OrderedKeywords[i][1], name)}
  IN IF hits = {} THEN "other" ELSE OrderedKeywords[FirstIndex(hits)][2]

\* The identifiers of a list of bucket items, in order.
PdidsOf(items) == [i \in 1..Len(items) |-> items[i].pdid]

\* C25 (category derivation): every counted device is in the category of
\* the first keyword, in the order switch, socket, sensor, gateway, panel,
\* that occurs in its name, and in the category other when none occurs.
C25_FirstKeywordDecides ==
  dpc \in {"called", "called_again"} =>
    \A k \in DOMAIN statistics.device_counts :
      LET category == FirstKeywordCategory(deviceMapping[PyStr(k)].device_name)
      IN /\ category \in DOMAIN statistics.category_stats
         /\ Occurrences(PdidsOf(statistics.category_stats[category]), k) = 1

\* C25 witness: a counted device whose name holds the panel keyword before
\* the switch keyword.
C25_Witness ==
  /\ dpc \in {"called", "called_again"}
  /\ \E k \in DOMAIN statistics.device_counts :
       deviceMapping[PyStr(k)].device_name = <<"<mian>", "<ban>", "<kai>", "<guan>">>

RECURSIVE SumCounts(_)
SumCounts(items) ==
  IF items = <<>> THEN 0 ELSE Head(items).count + SumCounts(Tail(items))

\* The sum of the counts of all items of all buckets.
BucketTotal(buckets) ==
  SumOver([b \in DOMAIN buckets |-> SumCounts(buckets[b])], DOMAIN buckets)

\* The identifier is in exactly one bucket, and once in it.
InOneBucket(buckets, k) ==
  /\ Cardinality({b \in DOMAIN buckets :
                    Occurrences(PdidsOf(buckets[b]), k) > 0}) = 1
  /\ \A b \in DOMAIN buckets : Occurrences(PdidsOf(buckets[b]), k) <= 1

\* C29 (no accumulation): after every call on an instance, the first one or
\* a repeated one, each counted identifier is in exactly one brand bucket
\* and in exactly one category bucket, and the counts of the brand buckets,
\* of the category buckets and of device_counts all sum to total_devices.
C29_BucketsAgree ==
  dpc \in {"called", "called_again"} =>
    /\ \A k \in DOMAIN statistics.device_counts :
         /\ InOneBucket(statistics.brand_stats, k)
         /\ InOneBucket(statistics.category_stats, k)
    /\ BucketTotal(statistics.brand_stats) = statistics.total_devices
    /\ BucketTotal(statistics.category_stats) = statistics.total_devices
    /\ SumOver(statistics.device_counts, DOMAIN statistics.device_counts)
         = statistics.total_devices

\* C29 witness: a repeated call that counted two identifiers of one brand.
C29_Witness ==
  /\ dpc = "called_again"
  /\ \E b \in DOMAIN statistics.brand_stats : Len(statistics.brand_stats[b]) = 2
\* ------------------------------------------------------------------------
\* Mappers at work side by side in one working directory
\* ------------------------------------------------------------------------

\* Number of EnhancedExcelImageMapper instances at work at the same time.
MaxMappers == 3

Mappers == 1..MaxMappers

\* EnhancedExcelImageMapper.__init__: self.temp_dir = "temp_excel_extract",
\* the same relative path for every instance.
MappersInit ==
  /\ catalog = <<>> /\ registry = <<>> /\ rels = <<>> /\ media = <<>>
  /\ readable = TRUE /\ imageHeader = TRUE /\ registryPart = TRUE
  /\ pc = "idle" /\ tmpExcel = FALSE /\ tmpProc = FALSE
  /\ procFiles = <<>> /\ enhanced = <<>> /\ extracted = NoImages
  /\ renamed = <<>> /\ saved = <<>> /\ status = NoStatus /\ errors = <<>>
  /\ outDir = <<>> /\ mappingFile = <<>> /\ result = "none"
  /\ apiResult = NoApiResult
  /\ clock = 0 /\ mappingMeta = NoMeta /\ history = NoHistory
  /\ mapperPos = [m \in Mappers |-> [at |-> "new", read |-> "nothing"]]
  /\ extractOwner = 0
  /\ DeckIdle

MapperUnchanged ==
  UNCHANGED <<inputVars, pc, tmpProc, procFiles, enhanced, extracted, renamed,
              saved, status, errors, outDir, mappingFile, result, apiResult,
              runVars, deckVars>>

\* _extract_excel, first half: shutil.rmtree(self.temp_dir) when it exists.
ClearTempDir(m) ==
  /\ mapperPos[m].at = "new"
  /\ extractOwner' = 0
  /\ tmpExcel' = FALSE
  /\ mapperPos' = [mapperPos EXCEPT ![m].at = "cleared"]
  /\ MapperUnchanged

\* _extract_excel, second half: makedirs and extractall put the files of
\* the mapper's workbook into the directory, over whatever is there.
ExtractAll(m) ==
  /\ mapperPos[m].at = "cleared"
  /\ extractOwner' = m
  /\ tmpExcel' = TRUE
  /\ mapperPos' = [mapperPos EXCEPT ![m].at = "extracted"]
  /\ MapperUnchanged

\* parse_cellimages_mapping after _extract_excel: the parts are read from
\* the directory as it is now.
ReadParts(m) ==
  /\ mapperPos[m].at = "extracted"
  /\ mapperPos' = [mapperPos EXCEPT
                     ![m].at = "read",
                     ![m].read = IF extractOwner = m THEN "own"
                                 ELSE IF extractOwner = 0 THEN "nothing"
                                 ELSE "foreign"]
  /\ UNCHANGED <<extractOwner, tmpExcel>>
  /\ MapperUnchanged

\* cleanup(): shutil.rmtree(self.temp_dir) when it exists.
MapperCleanup(m) ==
  /\ mapperPos[m].at = "read"
  /\ extractOwner' = 0
  /\ tmpExcel' = FALSE
  /\ mapperPos' = [mapperPos EXCEPT ![m].at = "done"]
  /\ MapperUnchanged

MappersNext ==
  \E m \in Mappers :
    ClearTempDir(m) \/ ExtractAll(m) \/ ReadParts(m) \/ MapperCleanup(m)

MappersSpec == MappersInit /\ [][MappersNext]_vars

\* C24 (isolated extraction directories): while a mapper is between its
\* extraction and its reading, the extraction directory holds the files
\* that mapper extracted: no step of another mapper deleted or replaced
\* them.
C24_IsolatedTempDir ==
  \A m \in Mappers : mapperPos[m].at = "extracted" => extractOwner = m
\* ------------------------------------------------------------------------
\* The mapping file and the result of the workflow
\* ------------------------------------------------------------------------

\* C26 (mapping file written): when run_complete_workflow has returned
\* True, image_mapping.json of the output directory exists and was written
\* by generate_mapping_file during that run.
C26_SuccessMeansMappingWritten ==
  (pc = "done" /\ result = "True") =>
    mappingMeta.exists /\ mappingMeta.generated_at = clock - 1
\* C27 (stages in order): in every state of a controller, status saving
\* implies status renaming, which implies status extraction; once a stage
\* has failed no later stage changes anything; and the workflow returns
\* True only with all four status flags set and no error recorded.
C27_StagesInOrder ==
  /\ [](/\ status.saving => status.renaming
        /\ status.renaming => status.extraction
        /\ result = "True" =>
             /\ status.extraction /\ status.renaming
             /\ status.saving /\ status.cleanup
             /\ errors = <<>>)
  /\ [][pc = "failed" => UNCHANGED sheetVars]_vars

C27_Witness ==
  /\ pc = "done" /\ result = "True"
  /\ status.saving /\ status.cleanup /\ history.runs > 1
\* ------------------------------------------------------------------------
\* Looking a product up in the mapping file (ImagePathResolver)
\* ------------------------------------------------------------------------

\* image_mapping.json of the output directory.
MappingFilePath == OutputDir \o <<"image_mapping.json">>

\* os.path.dirname of a relative path: no separator at the end.
PyDirname(path) ==
  LET d == Dirname(path)
  IN IF d = <<>> THEN <<>> ELSE SubSeq(d, 1, Len(d) - 1)

\* os.path.isabs
IsAbs(path) == path # <<>> /\ path[1] = "/"

\* os.path.join(a, b) for a relative b
PathJoin(a, b) == IF a = <<>> THEN b ELSE a \o <<"/">> \o b

\* os.path.exists on a path of an image file: the images that exist are
\* the files of the output directory.
ImageExists(path, out) ==
  Dirname(path) = OutputDir /\ Basename(path) \in DOMAIN out

\* ImagePathResolver.get_image_path_by_pdid: the first record of the
\* product with a path decides; a relative path is taken from the parent
\* of the directory of the mapping file; <<>> is None.
get_image_path_by_pdid(mapping_file_path, mapping_relationships, pdid, out) ==
  LET hits == {k \in 1..Len(mapping_relationships) :
                 /\ mapping_relationships[k].product_id = pdid
                 /\ mapping_relationships[k].real_image_file # <<>>}
      real == mapping_relationships[FirstIndex(hits)].real_image_file
      project_root == PyDirname(PyDirname(mapping_file_path))
      real_path == IF IsAbs(real) THEN real ELSE PathJoin(project_root, real)
  IN IF hits = {} THEN <<>>
     ELSE IF ImageExists(real_path, out) THEN real_path
     ELSE <<>>

\* C28 (mapping-file round trip): once the workflow has saved the images
\* and written the mapping file of the output directory, looking up the
\* identifier of any product whose image was saved yields the path of the
\* file saved for that product.
C28_RoundTrip ==
  (/\ pc \in {"saved", "done"}
   /\ mappingMeta.exists /\ mappingMeta.generated_at = clock - 1) =>
    \A i \in 1..Len(enhanced) :
      LET e == enhanced[i][2]
      IN (e.pdid # "" /\ NewFilename(e) \in DictKeys(saved)) =>
           get_image_path_by_pdid(MappingFilePath, mappingFile, e.pdid, outDir)
             = OutputDir \o NewFilename(e)
\* ------------------------------------------------------------------------
\* The two formula parsers side by side
\* ------------------------------------------------------------------------

\* The registry entry the legacy extractor looks up for an identifier it
\* parsed: ID_ put before it (build_correct_image_mapping), <<>> when none.
LegacyEntry(image_id, wps) ==
  IF (IdPrefix \o image_id) \in DOMAIN wps THEN IdPrefix \o image_id ELSE <<>>

\* C30 (the parsers agree): after the extraction stage has read a workbook,
\* every data row is recognised by extract_dispimg_formulas exactly when
\* parse_dispimg_formulas recognises it, and when they do the two
\* identifiers are matched to the same registry entry.
C30_ParsersAgree ==
  (status.extraction /\ readable) =>
    LET primary == extract_dispimg_formulas(imageHeader, catalog)
        legacy == parse_dispimg_formulas(imageHeader, catalog)
        cm == parse_cellimages_mapping(registryPart, registry, rels, media)
        wps == parse_wps_cellimages_mapping(registry, rels, media)
    IN \A r \in 2..(Len(catalog) + 1) :
         /\ r \in DOMAIN primary <=> r \in DOMAIN legacy
         /\ r \in DOMAIN primary =>
              MatchCellimages(primary[r].image_id, cm)
                = LegacyEntry(legacy[r], wps)
====
